---------------------------- MODULE Spec2Model ----------------------------
(***************************************************************************)
(* TradeBench data-access layer: the relational store declared in          *)
(* supabase/schema.sql (tables, UNIQUE and FOREIGN KEY constraints,        *)
(* row-level security, SECURITY DEFINER functions) and the API client      *)
(* that follows it in the same file (api.userProgress, api.bookmarks,      *)
(* api.quizSessions).                                                      *)
(*                                                                         *)
(* Every request carries the caller's authenticated identity (auth.uid()); *)
(* the userId argument of an API operation is a separate input.  One       *)
(* action is one API operation: the request it sends is a single SQL       *)
(* statement, which the store executes atomically.                         *)
(*                                                                         *)
(* The generated columns no operation reads or filters on (created_at,     *)
(* updated_at, and the uuid id of user_progress and bookmarks rows) are    *)
(* not part of the rows; a generated uuid equals no stored id.             *)
(***************************************************************************)
EXTENDS Integers, FiniteSets, Sequences, TLC

VARIABLES
    profiles,        \* public.profiles: the ids of the rows
    questions,       \* public.questions: rows [id, question_text]
    study_guides,    \* public.study_guides: rows [id, title]
    user_progress,   \* public.user_progress: rows [user_id, year, six JSON fields]
    bookmarks,       \* public.bookmarks: rows [user_id, question_id, year]
    quiz_sessions,   \* public.quiz_sessions: rows
    ret,             \* the outcome of the last operation issued
    inflight,        \* userProgress.update requests sent and not yet executed
    done,            \* userProgress.update requests executed, with their outcome
    auth_users,      \* auth.users: rows [id, email, password, confirmed]
    auth_session,    \* the user the client's session belongs to, Anon if none
    sent,            \* the backend requests the last auth operation has sent
    ctx,             \* AuthProvider: user, isAuthenticated, isLoadingAuth, authError, session
    calls,           \* the asynchronous calls of the AuthProvider that have not returned
    events,          \* auth-change notifications emitted and not yet delivered
    mounted,         \* the AuthProvider's effect has run: it is subscribed
    torn,            \* the AuthProvider was torn down: the effect's cleanup has run
    local_storage    \* offline mode: localStorage, entries [key, doc]

\* The state of the AuthProvider.
ctxVars == <<ctx, calls, events, mounted, torn>>

\* The state of the authentication service and of the client.
clientVars == <<auth_users, auth_session, sent, local_storage, ctxVars>>

vars == <<profiles, questions, study_guides, user_progress, bookmarks,
          quiz_sessions, ret, inflight, done, clientVars>>

----------------------------------------------------------------------------
(* Bounds of the model *)

MaxSessions == 2      \* quiz_sessions rows created
MaxCalls == 2         \* userProgress.update requests in flight or executed
MaxPending == 2       \* calls of the AuthProvider pending at once
MaxEvents == 2        \* notifications waiting for delivery at once

DefaultLimit == 10    \* getHistory(userId, year, limit = 10)

Users == {"u1", "u2"}
Anon == "anon"                      \* a request without a session: auth.uid() is NULL
Callers == Users \cup {Anon}
Years == {1, 2}
Times == {1, 2}                     \* readings of the wall clock
QuestionIds == {"q1", "q2"}         \* the seeded questions
GuideIds == {"g1"}                  \* the seeded study guides
NewQuestionIds == {"q3"}            \* ids of rows inserted later
NewGuideIds == {"g2"}

\* The user who has no account yet, and the address each user signs up with.
NewUsers == {"u3"}
EmailOf(u) ==
    CASE u = "u1" -> "u1@x.com" [] u = "u2" -> "u2@x.com" [] u = "u3" -> "u3@x.com"

\* The user_id of a row whose user_id column is NULL.
NoUser == "NULL"

Null == <<>>                        \* SQL NULL / JS null in a nullable column
Some(v) == <<v>>

----------------------------------------------------------------------------
(* JSON values and the progress document *)

JsonFields == {"progress_data", "exam_readiness", "statistics",
               "bookmarks", "weak_areas", "streak_data"}
ListFields == {"bookmarks", "weak_areas"}

\* The empty container of a JSON sub-field: {} for the maps, [] for the lists.
EmptyOf(f) == IF f \in ListFields THEN "[]" ELSE "{}"

\* JavaScript truthiness of the values a caller may supply for a sub-field:
\* an omitted property (undefined) and null are falsy, every object or
\* array - the empty ones included - is truthy.
Falsy(v) == v \in {"undefined", "null"}

\* progressData.<f>: the property, or undefined when the caller omitted it.
Prop(doc, f) == IF f \in DOMAIN doc THEN doc[f] ELSE "undefined"

\* a || b
OrElse(a, b) == IF Falsy(a) THEN b ELSE a

\* The documents callers pass to userProgress.update.
DocQ1 == [f \in {"progress_data"} |-> "{q1:correct}"]
DocFull == [f \in JsonFields |-> IF f \in ListFields THEN "[x]" ELSE "{k:v}"]
DocNull == [f \in {"progress_data", "statistics"} |->
              IF f = "statistics" THEN "null" ELSE "{q2:wrong}"]
Docs == {DocQ1, DocFull, DocNull}

----------------------------------------------------------------------------
(* Row-level security *)

\* ALTER TABLE ... ENABLE ROW LEVEL SECURITY
RLSEnabled == {"profiles", "user_progress", "quiz_sessions", "bookmarks"}

\* The owner column a policy compares with auth.uid().
OwnerOf(table, row) == IF table = "profiles" THEN row.id ELSE row.user_id

\* CREATE POLICY ...: does a policy of the table permit cmd on row for uid?
\* FOR ALL covers every command; its USING expression is also the WITH CHECK
\* of inserted rows.  auth.uid() of an anonymous request equals no user_id.
PolicyPermits(table, cmd, uid, row) ==
    CASE table = "profiles" ->
            cmd \in {"SELECT", "UPDATE", "INSERT"} /\ uid = OwnerOf(table, row)
      [] table \in {"user_progress", "quiz_sessions", "bookmarks"} ->
            uid = OwnerOf(table, row)
      [] table \in {"questions", "study_guides"} -> cmd = "SELECT"
      [] OTHER -> FALSE

\* A policy restricts a table only when row-level security is enabled on it.
Permitted(table, cmd, uid, row) ==
    table \notin RLSEnabled \/ PolicyPermits(table, cmd, uid, row)

\* The rows of a table a statement of uid can see.
Visible(table, rows, cmd, uid) == {r \in rows : Permitted(table, cmd, uid, r)}

----------------------------------------------------------------------------
(* Statements *)

\* DEFAULT uuid_generate_v4() of quiz_sessions.id: an id no row carries.
NewId(rows) ==
    CHOOSE i \in 1 .. (Cardinality(rows) + 1) : \A r \in rows : r.id # i

\* Single as .maybeSingle(): no row is no error.
Single_MaybeSingle(rows) ==
    IF Cardinality(rows) <= 1
    THEN [error |-> "none",
          data |-> IF rows = {} THEN Null ELSE CHOOSE r \in rows : TRUE]
    ELSE [error |-> "PGRST116", data |-> Null]

\* .single(): exactly one row, else error PGRST116 and no data.
Single(rows) ==
    IF Cardinality(rows) = 1
    THEN [error |-> "none", data |-> CHOOSE r \in rows : TRUE]
    ELSE [error |-> "PGRST116", data |-> Null]

\* The outcome of an operation: who called it with which arguments, whether
\* the request failed to reach the store (fault), the error thrown to the
\* caller ("none": the call returned) and the value returned.
NoRet == [op |-> "none", caller |-> Anon, args |-> Null, fault |-> FALSE,
          error |-> "none", data |-> Null]

Ret(op, caller, args, fault, error, data) ==
    [op |-> op, caller |-> caller, args |-> args, fault |-> fault,
     error |-> error, data |-> data]

\* UniqueKey with the year as a part of the key of a bookmark.
UniqueKey_BookmarkPerYear(table, row) ==
    CASE table = "user_progress" -> <<row.user_id, row.year>>
      [] table = "bookmarks" -> <<row.user_id, row.question_id, row.year>>
      [] OTHER -> <<row.id>>

\* The unique constraints of a table besides its primary key, as the key of a row.
UniqueKey(table, row) ==
    CASE table = "user_progress" -> <<row.user_id, row.year>>
      [] table = "bookmarks" -> <<row.user_id, row.question_id>>
      [] OTHER -> <<row.id>>        \* quiz_sessions: the primary key only

\* REFERENCES: the rows a new row refers to exist.
ForeignKeysHold(table, row) ==
    /\ table \in {"user_progress", "quiz_sessions", "bookmarks"}
          => row.user_id \in profiles
    /\ table = "bookmarks" => \E q \in questions : q.id = row.question_id

\* INSERT of one row by uid: the error the statement ends with.  The policy's
\* WITH CHECK is evaluated first, then the unique indexes, then the foreign keys.
InsertError(table, rows, row, uid) ==
    IF ~Permitted(table, "INSERT", uid, row) THEN "42501"
    ELSE IF \E r \in rows : UniqueKey(table, r) = UniqueKey(table, row) THEN "23505"
    ELSE IF ~ForeignKeysHold(table, row) THEN "23503"
    ELSE "none"

\* .insert(row).select().single()
Insert(table, rows, row, uid) ==
    LET e == InsertError(table, rows, row, uid)
    IN  IF e = "none"
        THEN [error |-> "none", rows |-> rows \cup {row}, data |-> row]
        ELSE [error |-> e, rows |-> rows, data |-> Null]

\* The conflict target of .upsert(row) called without the onConflict option:
\* the primary key of the table.
UpsertConflictTarget == "id"

\* The rows an upserted row conflicts with on the conflict target.  The
\* payload carries no id, so the row gets a generated one, which no stored
\* row has.
ConflictRows(rows, row, target) ==
    IF target = "id" THEN {}
    ELSE {r \in rows : r.user_id = row.user_id /\ r.year = row.year}

\* .upsert(row).select().single():
\*   INSERT ... ON CONFLICT (target) DO UPDATE SET <every column of row>.
\* A row that conflicts on the target is replaced by the new values; a
\* violation of any other unique constraint is an error.
Upsert(table, rows, row, uid, target) ==
    LET old == ConflictRows(rows, row, target)
    IN  IF old = {}
        THEN Insert(table, rows, row, uid)
        ELSE LET o == CHOOSE r \in old : TRUE
                 new == row
             IN  IF ~Permitted(table, "INSERT", uid, row)
                       \/ ~Permitted(table, "UPDATE", uid, o)
                 THEN [error |-> "42501", rows |-> rows, data |-> Null]
                 ELSE [error |-> "none", rows |-> (rows \ {o}) \cup {new},
                       data |-> new]

----------------------------------------------------------------------------
(* api.userProgress *)

\* DefaultProgress with the list fields defaulted like the map fields.
DefaultProgress_AllMaps(userId, year) ==
    [user_id |-> userId, year |-> year,
     progress_data |-> "{}", exam_readiness |-> "{}", statistics |-> "{}",
     bookmarks |-> "{}", weak_areas |-> "{}", streak_data |-> "{}"]

\* The document get returns when no row is found.
DefaultProgress(userId, year) ==
    [user_id |-> userId, year |-> year,
     progress_data |-> "{}", exam_readiness |-> "{}", statistics |-> "{}",
     bookmarks |-> "[]", weak_areas |-> "[]", streak_data |-> "{}"]

\* The row update sends: omitted and null sub-fields become empty containers.
ProgressRow(userId, year, progressData) ==
    [user_id |-> userId, year |-> year,
     progress_data |-> OrElse(Prop(progressData, "progress_data"), "{}"),
     exam_readiness |-> OrElse(Prop(progressData, "exam_readiness"), "{}"),
     statistics |-> OrElse(Prop(progressData, "statistics"), "{}"),
     bookmarks |-> OrElse(Prop(progressData, "bookmarks"), "[]"),
     weak_areas |-> OrElse(Prop(progressData, "weak_areas"), "[]"),
     streak_data |-> OrElse(Prop(progressData, "streak_data"), "{}")]

\* The rows .eq('user_id', userId).eq('year', year) selects for uid.
ProgressRowsOf(uid, cmd, userId, year) ==
    {r \in Visible("user_progress", user_progress, cmd, uid) :
        r.user_id = userId /\ r.year = year}

\* userProgress.get(userId, year).  A not-found answer (PGRST116) is replaced
\* by the default document; any other error is logged and null is returned.
UserProgressGet(caller, userId, year, fault) ==
    LET sel == Single(ProgressRowsOf(caller, "SELECT", userId, year))
        error == IF fault THEN "fetch" ELSE sel.error
        data == IF error = "none" THEN sel.data
                ELSE IF error = "PGRST116" THEN DefaultProgress(userId, year)
                ELSE Null
    IN  /\ ret' = Ret("userProgress.get", caller,
                      [userId |-> userId, year |-> year], fault, "none", data)
        /\ UNCHANGED <<profiles, questions, study_guides, user_progress,
                       bookmarks, quiz_sessions, inflight, done, clientVars>>

\* What the store does with the request of userProgress.update.
UpdateRequest(rows, uid, userId, year, progressData) ==
    Upsert("user_progress", rows,
           ProgressRow(userId, year, progressData), uid,
           UpsertConflictTarget)

\* userProgress.update(userId, year, progressData): errors are rethrown.
UserProgressUpdate(caller, userId, year, progressData) ==
    LET out == UpdateRequest(user_progress, caller, userId, year, progressData)
    IN  /\ user_progress' = out.rows
        /\ ret' = Ret("userProgress.update", caller,
                      [userId |-> userId, year |-> year, doc |-> progressData],
                      FALSE, out.error, out.data)
        /\ UNCHANGED <<profiles, questions, study_guides, bookmarks,
                       quiz_sessions, inflight, done, clientVars>>

\* Cleared without the two list fields.
Cleared_KeepsLists(r) ==
    [r EXCEPT !.progress_data = "{}", !.exam_readiness = "{}",
              !.statistics = "{}", !.streak_data = "{}"]

\* The values reset writes into every selected row.
Cleared(r) ==
    [r EXCEPT !.progress_data = "{}", !.exam_readiness = "{}",
              !.statistics = "{}", !.bookmarks = "[]", !.weak_areas = "[]",
              !.streak_data = "{}"]

\* userProgress.reset(userId, year): UPDATE ... .select().single(); errors,
\* the PGRST116 of an update that matched no row included, are rethrown.
UserProgressReset(caller, userId, year) ==
    LET hit == ProgressRowsOf(caller, "UPDATE", userId, year)
        new == {Cleared(r) : r \in hit}
        sel == Single(new)
    IN  /\ user_progress' = (user_progress \ hit) \cup new
        /\ ret' = Ret("userProgress.reset", caller,
                      [userId |-> userId, year |-> year], FALSE, sel.error,
                      sel.data)
        /\ UNCHANGED <<profiles, questions, study_guides, bookmarks,
                       quiz_sessions, inflight, done, clientVars>>

NextProgress ==
    \E caller \in Users, userId \in Users, year \in Years :
        \/ \E fault \in BOOLEAN : UserProgressGet(caller, userId, year, fault)
        \/ \E doc \in Docs : UserProgressUpdate(caller, userId, year, doc)
        \/ UserProgressReset(caller, userId, year)

----------------------------------------------------------------------------
(* Initial state: the schema is installed, every user has signed up and has *)
(* a profile, the reference tables are seeded, no user data is stored yet.  *)

\* The places for pending calls of the AuthProvider, and an empty place.
Slots == 1 .. MaxPending
Idle == [op |-> "idle", pc |-> "idle", args |-> Null, out |-> Null,
         userData |-> Null]

\* The accounts registered before the client starts: one per profile.
SeedAuthUsers ==
    {[id |-> u, email |-> EmailOf(u), password |-> "pw1", confirmed |-> TRUE] :
        u \in Users}

SeedQuestions == {[id |-> q, question_text |-> "seed"] : q \in QuestionIds}
SeedGuides == {[id |-> g, title |-> "seed"] : g \in GuideIds}

Init ==
    /\ profiles = Users
    /\ questions = SeedQuestions
    /\ study_guides = SeedGuides
    /\ user_progress = {}
    /\ bookmarks = {}
    /\ quiz_sessions = {}
    /\ ret = NoRet
    /\ inflight = {}
    /\ done = {}
    /\ auth_users = SeedAuthUsers
    /\ auth_session = Anon
    /\ sent = <<>>
    /\ ctx = [user |-> Null, isAuthenticated |-> FALSE, isLoadingAuth |-> TRUE,
              authError |-> Null, session |-> Null]
    /\ calls = [s \in Slots |-> Idle]
    /\ events = <<>>
    /\ mounted = FALSE
    /\ torn = FALSE
    /\ local_storage = {}

SpecProgress == Init /\ [][NextProgress]_vars

----------------------------------------------------------------------------
(* Properties of api.userProgress *)

\* The stored rows of a (user_id, year) pair.
StoredProgress(userId, year) ==
    {r \in user_progress : r.user_id = userId /\ r.year = year}

\* C1: for a (userId, year) pair with no stored row, userProgress.get
\* returns, whenever the store answers the request, a document carrying that
\* userId and year whose six JSON fields are the empty map or the empty list
\* of the field; it throws no not-found error.
C1_GetDefaultsWithoutRow ==
    (ret.op = "userProgress.get" /\ ~ret.fault
        /\ StoredProgress(ret.args.userId, ret.args.year) = {})
    => /\ ret.error = "none"
       /\ ret.data.user_id = ret.args.userId
       /\ ret.data.year = ret.args.year
       /\ \A f \in JsonFields : ret.data[f] = EmptyOf(f)

\* get has answered the owner of a pair without a row while rows of other
\* pairs are stored.
C1_Witness ==
    /\ ret.op = "userProgress.get" /\ ~ret.fault
    /\ ret.caller = ret.args.userId
    /\ StoredProgress(ret.args.userId, ret.args.year) = {}
    /\ user_progress # {}

\* The step is a get of the pair the owner has just passed to update.
GetAfterUpdate ==
    /\ ret.op = "userProgress.update" /\ ret.caller = ret.args.userId
    /\ ret'.op = "userProgress.get" /\ ~ret'.fault
    /\ ret'.caller = ret.caller
    /\ ret'.args.userId = ret.args.userId /\ ret'.args.year = ret.args.year

\* C2: update(userId, year, doc) followed by get(userId, year) returns the
\* document just written, whether or not the pair had a row before.
C2_UpdateThenGet ==
    [][GetAfterUpdate =>
          ret'.data = ProgressRow(ret.args.userId, ret.args.year, ret.args.doc)]_vars

\* The step is a second update of a pair by its owner, right after a first.
UpdateAfterUpdate ==
    /\ ret.op = "userProgress.update" /\ ret.caller = ret.args.userId
    /\ ret.error = "none"
    /\ ret'.op = "userProgress.update" /\ ret'.caller = ret.caller
    /\ ret'.args.userId = ret.args.userId /\ ret'.args.year = ret.args.year

\* At most one user_progress row per (user_id, year).
ProgressUniquePerKey ==
    \A r1, r2 \in user_progress :
        (r1.user_id = r2.user_id /\ r1.year = r2.year) => r1 = r2

\* C3: at most one row per (user_id, year), and two updates of the same pair
\* both succeed and leave one row, which holds the second call's fields.
C3_TwoUpdatesOneRow ==
    /\ []ProgressUniquePerKey
    /\ [][UpdateAfterUpdate =>
            /\ ret'.error = "none"
            /\ {r \in user_progress' : r.user_id = ret'.args.userId
                                        /\ r.year = ret'.args.year}
                 = {ProgressRow(ret'.args.userId, ret'.args.year, ret'.args.doc)}]_vars

\* C4: after update by the owner, every sub-field the document omitted is
\* stored as its empty container, whatever the row held before.
C4_OmittedFieldsStoredEmpty ==
    (ret.op = "userProgress.update" /\ ret.caller = ret.args.userId)
    => \A r \in StoredProgress(ret.args.userId, ret.args.year) :
          \A f \in JsonFields \ DOMAIN ret.args.doc : r[f] = EmptyOf(f)

----------------------------------------------------------------------------
(* Concurrent userProgress.update calls.  A call builds its row, sends the  *)
(* upsert request and awaits the answer; the store executes the requests    *)
(* it has received one at a time, in any order.                             *)

\* update(userId, year, progressData) up to its await: the request is sent.
\* with: the calls that are in flight at that moment.
SendUpdate(caller, userId, year, progressData) ==
    /\ Cardinality(inflight) + Cardinality(done) < MaxCalls
    /\ inflight' = inflight \cup
          {[n |-> Cardinality(inflight) + Cardinality(done) + 1,
            caller |-> caller, userId |-> userId, year |-> year,
            doc |-> progressData, with |-> {c.n : c \in inflight}]}
    /\ UNCHANGED <<profiles, questions, study_guides, user_progress, bookmarks,
                   quiz_sessions, ret, done, clientVars>>

\* The store executes the request of call c and answers; the call returns the
\* row or throws the error.  seq: the position of c in the order of execution.
ExecUpdate(c) ==
    LET out == UpdateRequest(user_progress, c.caller, c.userId, c.year, c.doc)
    IN  /\ user_progress' = out.rows
        /\ inflight' = inflight \ {c}
        /\ done' = done \cup
              {[n |-> c.n, caller |-> c.caller, userId |-> c.userId,
                year |-> c.year, doc |-> c.doc, with |-> c.with,
                error |-> out.error, seq |-> Cardinality(done) + 1]}
        /\ UNCHANGED <<profiles, questions, study_guides, bookmarks,
                       quiz_sessions, ret, clientVars>>

NextConcurrent ==
    \/ \E caller \in Users, userId \in Users, year \in Years, doc \in Docs :
          SendUpdate(caller, userId, year, doc)
    \/ \E c \in inflight : ExecUpdate(c)

SpecConcurrent == Init /\ [][NextConcurrent]_vars

\* Two calls were in flight at the same time.
Overlap(c1, c2) == c1.n \in c2.with \/ c2.n \in c1.with

\* C5: two concurrent updates of one (userId, year) by its owner both
\* complete without error, and the stored row is then the whole document of
\* the one executed last; no second row exists.
C5_ConcurrentUpdatesLastWins ==
    \A c1, c2 \in done :
        (/\ c1.seq < c2.seq /\ Overlap(c1, c2)
         /\ c1.userId = c2.userId /\ c1.year = c2.year
         /\ c1.caller = c1.userId /\ c2.caller = c2.userId
         /\ ~\E c \in inflight : c.userId = c1.userId /\ c.year = c1.year)
        => /\ c1.error = "none" /\ c2.error = "none"
           /\ StoredProgress(c1.userId, c1.year)
                = {ProgressRow(c2.userId, c2.year, c2.doc)}

----------------------------------------------------------------------------
(* The SECURITY DEFINER functions, which every caller can invoke through   *)
(* the store's RPC endpoint.  They run with their owner's rights, so no    *)
(* row-level policy applies to the statements in them.                     *)

\* A new user_progress row of INSERT (user_id, year, progress_data): the
\* other columns take their DEFAULT.
ProgressRowWithDefaults(userId, year, progress_data) ==
    [user_id |-> userId, year |-> year, progress_data |-> progress_data,
     exam_readiness |-> EmptyOf("exam_readiness"),
     statistics |-> EmptyOf("statistics"),
     bookmarks |-> EmptyOf("bookmarks"),
     weak_areas |-> EmptyOf("weak_areas"),
     streak_data |-> EmptyOf("streak_data")]

\* The progress_data values passed to update_user_progress.
RpcValues == {"{q1:correct}", "{k:v}"}

\* get_user_progress(p_user_id, p_year)
RpcGetUserProgress(caller, p_user_id, p_year) ==
    LET found == StoredProgress(p_user_id, p_year)
        data == IF found # {} THEN (CHOOSE r \in found : TRUE).progress_data
                ELSE "{}"
    IN  /\ ret' = Ret("rpc.get_user_progress", caller,
                      [userId |-> p_user_id, year |-> p_year], FALSE, "none", data)
        /\ UNCHANGED <<profiles, questions, study_guides, user_progress,
                       bookmarks, quiz_sessions, inflight, done, clientVars>>

\* update_user_progress(p_user_id, p_year, p_progress_data).  user_id is a
\* nullable column: a NULL p_user_id conflicts with no row and refers to no
\* profile, so the row is inserted.
RpcUpdateUserProgress(caller, p_user_id, p_year, p_progress_data) ==
    LET old == IF p_user_id = NoUser THEN {}
               ELSE StoredProgress(p_user_id, p_year)
        new == IF old = {}
               THEN {ProgressRowWithDefaults(p_user_id, p_year, p_progress_data)}
               ELSE {[r EXCEPT !.progress_data = p_progress_data] : r \in old}
        error == IF old = {} /\ p_user_id # NoUser /\ p_user_id \notin profiles
                 THEN "23503" ELSE "none"
    IN  /\ user_progress' = IF error = "none" THEN (user_progress \ old) \cup new
                            ELSE user_progress
        /\ ret' = Ret("rpc.update_user_progress", caller,
                      [userId |-> p_user_id, year |-> p_year,
                       progress_data |-> p_progress_data],
                      FALSE, error, IF error = "none" THEN Some(TRUE) ELSE Null)
        /\ UNCHANGED <<profiles, questions, study_guides, bookmarks,
                       quiz_sessions, inflight, done, clientVars>>

\* get_user_statistics(p_user_id, p_year)
RpcGetUserStatistics(caller, p_user_id, p_year) ==
    LET found == StoredProgress(p_user_id, p_year)
        r == CHOOSE x \in found : TRUE
        data == IF found # {}
                THEN [exam_readiness |-> r.exam_readiness,
                      statistics |-> r.statistics, bookmarks |-> r.bookmarks,
                      weak_areas |-> r.weak_areas, streak_data |-> r.streak_data]
                ELSE [exam_readiness |-> "{}", statistics |-> "{}",
                      bookmarks |-> "[]", weak_areas |-> "[]",
                      streak_data |-> "{}"]
    IN  /\ ret' = Ret("rpc.get_user_statistics", caller,
                      [userId |-> p_user_id, year |-> p_year], FALSE, "none", data)
        /\ UNCHANGED <<profiles, questions, study_guides, user_progress,
                       bookmarks, quiz_sessions, inflight, done, clientVars>>

NextRpc ==
    \E caller \in Callers, userId \in Users, year \in Years :
        \/ RpcGetUserProgress(caller, userId, year)
        \/ \E v \in RpcValues : RpcUpdateUserProgress(caller, userId, year, v)
        \/ RpcGetUserStatistics(caller, userId, year)

SpecRpc == Init /\ [][NextRpc]_vars

\* The user_progress rows of user u.
ProgressOf(u) == {r \in user_progress : r.user_id = u}

\* C6: no operation issued as user A returns or changes a row owned by
\* another user B: a step that changes B's rows is a call of B, and a read
\* of B's progress by another caller returns what it returns without a row.
C6_OwnerOnlyAccess ==
    /\ [][\A b \in Users :
            ProgressOf(b)' # ProgressOf(b) => ret'.caller = b]_vars
    /\ []((ret.op = "rpc.get_user_progress" /\ ret.caller # ret.args.userId)
            => ret.data = "{}")

----------------------------------------------------------------------------
(* Access to the reference tables through the store's REST interface, which *)
(* exposes every table of the public schema to every holder of the public   *)
(* API key, restricted by row-level security where it is enabled.           *)

ReferenceTables == {"questions", "study_guides"}

RowsOf(table) == IF table = "questions" THEN questions ELSE study_guides

\* A row of a reference table with its text column set.
ReferenceRow(table, id, text) ==
    IF table = "questions" THEN [id |-> id, question_text |-> text]
    ELSE [id |-> id, title |-> text]

\* The reference tables after a statement left rows in table; bookmarks of a
\* deleted question are deleted with it (ON DELETE CASCADE).
StoreReference(table, rows) ==
    /\ questions' = IF table = "questions" THEN rows ELSE questions
    /\ study_guides' = IF table = "study_guides" THEN rows ELSE study_guides
    /\ bookmarks' = IF table = "questions"
                    THEN {b \in bookmarks : \E q \in rows : q.id = b.question_id}
                    ELSE bookmarks

\* GET /<table>
RestSelect(caller, table) ==
    /\ ret' = Ret("rest.select", caller, [table |-> table], FALSE, "none",
                  Visible(table, RowsOf(table), "SELECT", caller))
    /\ UNCHANGED <<profiles, questions, study_guides, user_progress, bookmarks,
                   quiz_sessions, inflight, done, clientVars>>

\* POST /<table>
RestInsert(caller, table, id) ==
    LET row == ReferenceRow(table, id, "added")
        ok == Permitted(table, "INSERT", caller, row)
                 /\ \A r \in RowsOf(table) : r.id # id
    IN  /\ StoreReference(table, IF ok THEN RowsOf(table) \cup {row}
                                 ELSE RowsOf(table))
        /\ ret' = Ret("rest.insert", caller, [table |-> table, id |-> id], FALSE,
                      IF ok THEN "none"
                      ELSE IF ~Permitted(table, "INSERT", caller, row) THEN "42501"
                      ELSE "23505", Null)
        /\ UNCHANGED <<profiles, user_progress, quiz_sessions, inflight, done, clientVars>>

\* PATCH /<table>?id=eq.<id>: the rows the caller may update are changed.
RestUpdate(caller, table, id) ==
    LET hit == {r \in Visible(table, RowsOf(table), "UPDATE", caller) : r.id = id}
    IN  /\ StoreReference(table, (RowsOf(table) \ hit)
                                   \cup {ReferenceRow(table, r.id, "edited") : r \in hit})
        /\ ret' = Ret("rest.update", caller, [table |-> table, id |-> id], FALSE,
                      "none", Null)
        /\ UNCHANGED <<profiles, user_progress, quiz_sessions, inflight, done, clientVars>>

\* DELETE /<table>?id=eq.<id>: the rows the caller may delete are deleted.
RestDelete(caller, table, id) ==
    LET hit == {r \in Visible(table, RowsOf(table), "DELETE", caller) : r.id = id}
    IN  /\ StoreReference(table, RowsOf(table) \ hit)
        /\ ret' = Ret("rest.delete", caller, [table |-> table, id |-> id], FALSE,
                      "none", Null)
        /\ UNCHANGED <<profiles, user_progress, quiz_sessions, inflight, done, clientVars>>

NextReference ==
    \E caller \in Callers, table \in ReferenceTables :
        \/ RestSelect(caller, table)
        \/ \E id \in IF table = "questions" THEN NewQuestionIds ELSE NewGuideIds :
              RestInsert(caller, table, id)
        \/ \E r \in RowsOf(table) : RestUpdate(caller, table, r.id)
        \/ \E r \in RowsOf(table) : RestDelete(caller, table, r.id)

SpecReference == Init /\ [][NextReference]_vars

\* C7: every caller can read questions and study guides, and no caller other
\* than the administrative seeding changes them: under the calls of users
\* and anonymous callers both tables stay as seeded.
C7_ReferenceDataReadOnly ==
    /\ questions = SeedQuestions /\ study_guides = SeedGuides
    /\ (ret.op = "rest.select" => ret.data = RowsOf(ret.args.table))

----------------------------------------------------------------------------
(* api.bookmarks *)

\* The stored bookmarks of a (user_id, question_id) pair.
StoredBookmarks(userId, questionId) ==
    {b \in bookmarks : b.user_id = userId /\ b.question_id = questionId}

\* bookmarks.add(userId, questionId, year): errors are rethrown.
BookmarksAdd(caller, userId, questionId, year) ==
    LET out == Insert("bookmarks", bookmarks,
                      [user_id |-> userId, question_id |-> questionId,
                       year |-> year], caller)
    IN  /\ bookmarks' = out.rows
        /\ ret' = Ret("bookmarks.add", caller,
                      [userId |-> userId, questionId |-> questionId,
                       year |-> year], FALSE, out.error, out.data)
        /\ UNCHANGED <<profiles, questions, study_guides, user_progress,
                       quiz_sessions, inflight, done, clientVars>>

\* DeleteError for a delete that expects one deleted row, as with .single().
DeleteError_ExpectsRow(hit) == IF hit = {} THEN "PGRST116" ELSE "none"

\* The error of .delete().eq(...).eq(...) that deleted the rows hit: a delete
\* without .select().single() does not look at the number of rows.
DeleteError(hit) == "none"

\* bookmarks.remove(userId, questionId): true, or the error rethrown.
BookmarksRemove(caller, userId, questionId, fault) ==
    LET hit == {b \in Visible("bookmarks", bookmarks, "DELETE", caller) :
                   b.user_id = userId /\ b.question_id = questionId}
        error == IF fault THEN "fetch" ELSE DeleteError(hit)
    IN  /\ bookmarks' = IF fault THEN bookmarks ELSE bookmarks \ hit
        /\ ret' = Ret("bookmarks.remove", caller,
                      [userId |-> userId, questionId |-> questionId], fault,
                      error, IF error = "none" THEN Some(TRUE) ELSE Null)
        /\ UNCHANGED <<profiles, questions, study_guides, user_progress,
                       quiz_sessions, inflight, done, clientVars>>

NextBookmarks ==
    \E caller \in Users, userId \in Users, questionId \in QuestionIds :
        \/ \E year \in Years : BookmarksAdd(caller, userId, questionId, year)
        \/ \E fault \in BOOLEAN : BookmarksRemove(caller, userId, questionId, fault)

SpecBookmarks == Init /\ [][NextBookmarks]_vars

\* At most one bookmark per (user_id, question_id).
BookmarkUniquePerKey ==
    \A b1, b2 \in bookmarks :
        (b1.user_id = b2.user_id /\ b1.question_id = b2.question_id) => b1 = b2

\* C8: bookmarks.add for a (userId, questionId) pair that has a bookmark
\* throws an error to the caller - the unique violation 23505 when the caller
\* is the user - and leaves the store unchanged; there is at most one
\* bookmark per pair in every state.
C8_AddExistingConflicts ==
    /\ []BookmarkUniquePerKey
    /\ [][(ret'.op = "bookmarks.add"
             /\ StoredBookmarks(ret'.args.userId, ret'.args.questionId) # {})
          => /\ ret'.error # "none"
             /\ ret'.caller = ret'.args.userId => ret'.error = "23505"
             /\ bookmarks' = bookmarks]_vars

\* add was refused with the unique violation for its user's own pair, the
\* stored bookmark being of the other year.
C8_Witness ==
    /\ ret.op = "bookmarks.add" /\ ret.error = "23505"
    /\ ret.caller = ret.args.userId
    /\ \E b \in StoredBookmarks(ret.args.userId, ret.args.questionId) :
          b.year # ret.args.year

\* The step is a remove that the store answers.
RemoveStep == ret'.op = "bookmarks.remove" /\ ~ret'.fault

\* C9: remove of a pair without a bookmark returns true without an error and
\* leaves the store unchanged, and a remove repeated right after an answered
\* remove of the same pair changes nothing and succeeds.
C9_RemoveIdempotent ==
    /\ [][(RemoveStep
             /\ StoredBookmarks(ret'.args.userId, ret'.args.questionId) = {})
          => /\ ret'.error = "none" /\ ret'.data = Some(TRUE)
             /\ bookmarks' = bookmarks]_vars
    /\ [][(RemoveStep /\ ret.op = "bookmarks.remove" /\ ~ret.fault
             /\ ret'.caller = ret.caller /\ ret'.args = ret.args)
          => /\ ret'.error = "none" /\ bookmarks' = bookmarks]_vars

\* The owner's remove of a pair without a bookmark has returned while other
\* bookmarks are stored.
C9_Witness ==
    /\ ret.op = "bookmarks.remove" /\ ~ret.fault /\ ret.error = "none"
    /\ ret.caller = ret.args.userId
    /\ StoredBookmarks(ret.args.userId, ret.args.questionId) = {}
    /\ bookmarks # {}

----------------------------------------------------------------------------
(* api.quizSessions *)

\* The question snapshot and the results callers pass.
Snapshot == <<"q1", "q2">>

\* quizSessions.create(userId, year, quizMode, questions): the columns not
\* supplied take their DEFAULT, completed_at is NULL.
QuizSessionsCreate(caller, userId, year, quizMode, snapshot) ==
    LET row == [id |-> NewId(quiz_sessions), user_id |-> userId, year |-> year,
                quiz_mode |-> quizMode, questions |-> snapshot,
                answers |-> "{}", score |-> 0,
                total_questions |-> Len(snapshot), time_taken |-> 0,
                completed_at |-> Null]
        out == Insert("quiz_sessions", quiz_sessions, row, caller)
    IN  /\ Cardinality(quiz_sessions) < MaxSessions
        /\ quiz_sessions' = out.rows
        /\ ret' = Ret("quizSessions.create", caller,
                      [userId |-> userId, year |-> year], FALSE, out.error,
                      out.data)
        /\ UNCHANGED <<profiles, questions, study_guides, user_progress,
                       bookmarks, inflight, done, clientVars>>

\* quizSessions.update(sessionId, answers, score, timeTaken) at time now:
\* UPDATE ... .eq('id', sessionId).select().single(); errors are rethrown.
QuizSessionsUpdate(caller, sessionId, answers, score, timeTaken, now) ==
    LET hit == {r \in Visible("quiz_sessions", quiz_sessions, "UPDATE", caller) :
                   r.id = sessionId}
        new == {[r EXCEPT !.answers = answers, !.score = score,
                          !.time_taken = timeTaken,
                          !.completed_at = Some(now)] : r \in hit}
        sel == Single(new)
    IN  /\ quiz_sessions' = (quiz_sessions \ hit) \cup new
        /\ ret' = Ret("quizSessions.update", caller,
                      [sessionId |-> sessionId, now |-> now], FALSE, sel.error,
                      sel.data)
        /\ UNCHANGED <<profiles, questions, study_guides, user_progress,
                       bookmarks, inflight, done, clientVars>>

\* CompletedFilter without any filter on completed_at.
CompletedFilter_Missing == [op |-> "none", value |-> "null"]

\* .eq('completed_at', null, 'neq'): eq takes a column and a value, so the
\* filter sent is completed_at=eq.null; the third argument is not read.
CompletedFilter == [op |-> "eq", value |-> "null"]

\* A timestamp as the text of a query operand.
TimestampText(t) == IF t = 1 THEN "T1" ELSE "T2"

\* The store's answer to a filter on the timestamp column completed_at:
\* eq compares the column with the operand read as a timestamp, and an
\* operand that is no timestamp is an error of the query (22007);
\* not.is.null selects the rows whose column is set.
FilterCompleted(rows, filter) ==
    CASE filter.op = "eq" ->
            LET ts == {t \in Times : TimestampText(t) = filter.value}
            IN  IF ts # {}
                THEN [error |-> "none",
                      rows |-> {r \in rows : \E t \in ts : r.completed_at = Some(t)}]
                ELSE [error |-> "22007", rows |-> {}]
      [] filter.op = "not.is" ->
            [error |-> "none", rows |-> {r \in rows : r.completed_at # Null}]
      [] OTHER -> [error |-> "none", rows |-> rows]

\* ORDER BY completed_at DESC sorts NULL before every timestamp.
CompletedRank(r) ==
    IF r.completed_at = Null THEN 0
    ELSE 1 + Cardinality({t \in Times : t > r.completed_at[1]})

\* .order('completed_at', {ascending: false}): the rows as a list, newest
\* first; rows of equal completed_at in any one order.
RECURSIVE OrderByCompletedDesc(_)
OrderByCompletedDesc(rows) ==
    IF rows = {} THEN <<>>
    ELSE LET first == CHOOSE r \in rows :
                         \A o \in rows : CompletedRank(r) <= CompletedRank(o)
         IN  <<first>> \o OrderByCompletedDesc(rows \ {first})

\* .limit(n)
Limit(list, n) == SubSeq(list, 1, IF Len(list) < n THEN Len(list) ELSE n)

\* quizSessions.getHistory(userId, year, limit): any error is logged and the
\* empty list is returned.
QuizSessionsGetHistory(caller, userId, year, limit) ==
    LET sel == {r \in Visible("quiz_sessions", quiz_sessions, "SELECT", caller) :
                   r.user_id = userId /\ r.year = year}
        res == FilterCompleted(sel, CompletedFilter)
        data == IF res.error = "none"
                THEN Limit(OrderByCompletedDesc(res.rows), limit)
                ELSE <<>>
    IN  /\ ret' = Ret("quizSessions.getHistory", caller,
                      [userId |-> userId, year |-> year, limit |-> limit],
                      FALSE, "none", data)
        /\ UNCHANGED <<profiles, questions, study_guides, user_progress,
                       bookmarks, quiz_sessions, inflight, done, clientVars>>

NextSessions ==
    \E caller \in Users :
        \/ \E userId \in Users, year \in Years :
              QuizSessionsCreate(caller, userId, year, "practice", Snapshot)
        \/ \E sessionId \in 1 .. MaxSessions, now \in Times :
              QuizSessionsUpdate(caller, sessionId, "{q1:a}", 1, 30, now)
        \/ \E userId \in Users, year \in Years, limit \in {1, DefaultLimit} :
              QuizSessionsGetHistory(caller, userId, year, limit)

SpecSessions == Init /\ [][NextSessions]_vars

\* C10: the list getHistory returns holds no session whose completed_at is
\* unset, whatever sessions were created and updated before.
C10_HistoryOnlyCompleted ==
    ret.op = "quizSessions.getHistory"
    => \A i \in 1 .. Len(ret.data) : ret.data[i].completed_at # Null

\* getHistory has returned to a user who has, in the year asked for, a
\* session created and not updated and a session updated.
C10_Witness ==
    /\ ret.op = "quizSessions.getHistory" /\ ret.caller = ret.args.userId
    /\ \E r1, r2 \in quiz_sessions :
          /\ r1.user_id = ret.args.userId /\ r1.year = ret.args.year
          /\ r2.user_id = ret.args.userId /\ r2.year = ret.args.year
          /\ r1.completed_at = Null /\ r2.completed_at # Null

\* The stored sessions with this id.
StoredSession(sessionId) == {r \in quiz_sessions : r.id = sessionId}

\* C11: an update of a session the caller owns returns without error and
\* leaves that session with completed_at set to the time of the call; an
\* update whose sessionId matches no session (or a session of another user)
\* fails with the not-found error PGRST116 and leaves every session row as
\* it was.
C11_UpdateCompletesOrNotFound ==
    [][ret'.op = "quizSessions.update"
       => LET id == ret'.args.sessionId
              own == {r \in StoredSession(id) : r.user_id = ret'.caller}
          IN  IF own # {}
              THEN /\ ret'.error = "none"
                   /\ \E r \in quiz_sessions' :
                         /\ r.id = id
                         /\ r.completed_at = Some(ret'.args.now)
                         /\ ret'.data = r
                   /\ Cardinality(quiz_sessions') = Cardinality(quiz_sessions)
                   /\ \A r \in quiz_sessions : r.id # id => r \in quiz_sessions'
              ELSE /\ ret'.error = "PGRST116"
                   /\ quiz_sessions' = quiz_sessions]_vars

\* An update has failed with not-found while sessions are stored, none of
\* them under the id asked for.
C11_Witness ==
    /\ ret.op = "quizSessions.update" /\ ret.error = "PGRST116"
    /\ quiz_sessions # {}
    /\ StoredSession(ret.args.sessionId) = {}

\* The step is a reset, by its owner, of a pair that has a row.
ResetOfStoredRow ==
    /\ ret'.op = "userProgress.reset" /\ ret'.caller = ret'.args.userId
    /\ StoredProgress(ret'.args.userId, ret'.args.year) # {}

\* The step is a get of the pair its owner has just reset.
GetAfterReset ==
    /\ ret.op = "userProgress.reset" /\ ret.error = "none"
    /\ ret'.op = "userProgress.get" /\ ~ret'.fault
    /\ ret'.caller = ret.caller
    /\ ret'.args.userId = ret.args.userId /\ ret'.args.year = ret.args.year

\* C12: a reset of a pair that has a row returns without error and leaves
\* that row with its user_id and year and all six JSON fields the empty
\* container of the field; the number of rows and the rows of every other
\* pair are as before; a get of the pair right after returns the default
\* document.
C12_ResetClearsRow ==
    [][/\ ResetOfStoredRow
          => LET userId == ret'.args.userId
                 year == ret'.args.year
             IN  /\ ret'.error = "none"
                 /\ {r \in user_progress' : r.user_id = userId /\ r.year = year}
                       = {DefaultProgress(userId, year)}
                 /\ Cardinality(user_progress') = Cardinality(user_progress)
                 /\ \A r \in user_progress :
                       (r.user_id # userId \/ r.year # year)
                       => r \in user_progress'
       /\ GetAfterReset
          => ret'.data = DefaultProgress(ret.args.userId, ret.args.year)]_vars

\* A reset has cleared the row of one pair while the row of another pair
\* holds data.
C12_Witness ==
    /\ ret.op = "userProgress.reset" /\ ret.error = "none"
    /\ StoredProgress(ret.args.userId, ret.args.year) # {}
    /\ \E r \in user_progress : r.progress_data # "{}"

----------------------------------------------------------------------------
(* Deletion of profiles *)

\* OnDeleteCascade with the referencing rows left in place.
OnDeleteCascade_NoAction(rows, id) == rows

\* user_id ... REFERENCES public.profiles(id) ON DELETE CASCADE: the rows of
\* a referencing table that stay when profile id is deleted.
OnDeleteCascade(rows, id) == {r \in rows : r.user_id # id}

\* DELETE FROM public.profiles WHERE id = ...: no policy lets a client
\* delete a profile, so it is the statement of an administrator.
DeleteProfile(id) ==
    /\ id \in profiles
    /\ profiles' = profiles \ {id}
    /\ user_progress' = OnDeleteCascade(user_progress, id)
    /\ quiz_sessions' = OnDeleteCascade(quiz_sessions, id)
    /\ bookmarks' = OnDeleteCascade(bookmarks, id)
    /\ ret' = Ret("profiles.delete", "service_role", [id |-> id], FALSE,
                  "none", Null)
    /\ UNCHANGED <<questions, study_guides, inflight, done, clientVars>>

NextCascade ==
    \E u \in Users :
        \/ DeleteProfile(u)
        \/ UserProgressUpdate(u, u, 1, DocQ1)
        \/ BookmarksAdd(u, u, "q1", 1)
        \/ QuizSessionsCreate(u, u, 1, "practice", Snapshot)
        \/ \E p_user_id \in Users \cup {NoUser} :
              RpcUpdateUserProgress(u, p_user_id, 1, "{k:v}")

SpecCascade == Init /\ [][NextCascade]_vars

----------------------------------------------------------------------------
(* api.auth: the authentication service *)

\* String.prototype.toLowerCase on the strings of the model.
Lower(s) ==
    CASE s = "Blue" -> "blue"
      [] s = "BLUE" -> "blue"
      [] s = "U1@x.com" -> "u1@x.com"
      [] OTHER -> s

\* The security answer stored in the profile of a user.
SecurityAnswerOf(u) == IF u = "u1" THEN "Blue" ELSE "red"

\* public.profiles with the columns resetPassword reads.
ProfileRows ==
    {[id |-> u, email |-> EmailOf(u), security_answer |-> SecurityAnswerOf(u)] :
        u \in profiles}

\* createClient(supabaseUrl, supabaseAnonKey): the role a request of the
\* client carries is anon, or authenticated once a session exists.
RequestRole == IF auth_session = Anon THEN "anon" ELSE "authenticated"

\* The outcome of a call of the client: the error it ends with, the value it
\* resolves to, the accounts and the session it leaves, the notification the
\* service emits and the requests it has sent.
Outcome(error, data, users, session, event, requests) ==
    [error |-> error, data |-> data, users |-> users, session |-> session,
     event |-> event, requests |-> requests]

\* A call whose only request did not reach the service.
Unreached(request) ==
    Outcome("fetch", Null, auth_users, auth_session, "none", <<request>>)

\* data.user && !data.session
NeedsVerification(user, session) == user # Null /\ session = Null

\* supabase.auth.signUp: the service rejects a missing email or password and
\* an address already registered; it creates the account, with a session
\* unless the project asks for the confirmation of addresses (confirm).
SignUpCall(email, password, confirm, fault) ==
    LET new == {u \in NewUsers : EmailOf(u) = email}
        id == CHOOSE u \in new : TRUE
        row == [id |-> id, email |-> email, password |-> password,
                confirmed |-> ~confirm]
        session == IF confirm THEN Null ELSE Some(id)
    IN  IF fault THEN Unreached("auth.signUp")
        ELSE IF email = "" \/ password = ""
        THEN Outcome("validation_failed", Null, auth_users, auth_session,
                     "none", <<"auth.signUp">>)
        ELSE IF new = {} \/ \E a \in auth_users : a.email = email
        THEN Outcome("user_already_exists", Null, auth_users, auth_session,
                     "none", <<"auth.signUp">>)
        ELSE Outcome("none",
                     [user |-> Some(id), session |-> session,
                      needsVerification |-> NeedsVerification(Some(id), session)],
                     auth_users \cup {row},
                     IF confirm THEN auth_session ELSE id,
                     IF confirm THEN "none" ELSE "SIGNED_IN",
                     <<"auth.signUp">>)

\* supabase.auth.signInWithPassword
SignInCall(email, password, fault) ==
    LET hit == {a \in auth_users : a.email = email /\ a.password = password}
        a == CHOOSE x \in hit : TRUE
    IN  IF fault THEN Unreached("auth.signIn")
        ELSE IF hit = {}
        THEN Outcome("invalid_credentials", Null, auth_users, auth_session,
                     "none", <<"auth.signIn">>)
        ELSE IF ~a.confirmed
        THEN Outcome("email_not_confirmed", Null, auth_users, auth_session,
                     "none", <<"auth.signIn">>)
        ELSE Outcome("none", [user |-> Some(a.id), session |-> Some(a.id)],
                     auth_users, a.id, "SIGNED_IN", <<"auth.signIn">>)

\* supabase.auth.signOut: the session is kept when the request fails.
SignOutCall(fault) ==
    IF fault THEN Unreached("auth.signOut")
    ELSE Outcome("none", Some(TRUE), auth_users, Anon, "SIGNED_OUT",
                 <<"auth.signOut">>)

\* api.auth.getUser: the user of the session; null without a session and on
\* every error.
GetUserCall(fault) ==
    IF auth_session = Anon
    THEN Outcome("none", Null, auth_users, auth_session, "none", <<>>)
    ELSE IF fault
    THEN Outcome("none", Null, auth_users, auth_session, "none",
                 <<"auth.getUser">>)
    ELSE Outcome("none", Some(auth_session), auth_users, auth_session, "none",
                 <<"auth.getUser">>)

\* api.auth.updateMe(updates): UPDATE profiles ... .eq('id', user.id)
\* .select().single() as the user getUser returns.
UpdateMeCall(updates, fault) ==
    LET user == GetUserCall(fault)
        hit == {p \in Visible("profiles", ProfileRows, "UPDATE", auth_session) :
                   user.data # Null /\ p.id = user.data[1]}
        sel == Single(hit)
    IN  IF user.data = Null
        THEN Outcome("User not authenticated", Null, auth_users, auth_session,
                     "none", user.requests)
        ELSE Outcome(sel.error,
                     IF sel.error = "none"
                     THEN [id |-> sel.data.id, selected_year |-> updates]
                     ELSE Null,
                     auth_users, auth_session, "none",
                     user.requests \o <<"profiles.update">>)

\* verify_security_answer(p_user_id, p_answer): the stored answer of the
\* profile equals the answer passed, letter case ignored.
VerifySecurityAnswer(p_user_id, p_answer) ==
    \E p \in ProfileRows :
        p.id = p_user_id /\ Lower(p.security_answer) = Lower(p_answer)

\* supabase.auth.admin.updateUserById(id, {password}): the admin API serves
\* the service role only.
AdminUpdateUserById(role, id, password) ==
    IF role # "service_role"
    THEN [error |-> "not_admin", users |-> auth_users]
    ELSE [error |-> "none",
          users |-> {IF a.id = id THEN [a EXCEPT !.password = password] ELSE a :
                        a \in auth_users}]

\* if (!isValid) throw new Error('Invalid security answer')
AnswerRejected(isValid) == ~isValid

\* api.auth.resetPassword(email, securityAnswer, newPassword)
ResetPasswordCall(email, securityAnswer, newPassword) ==
    LET found == {p \in Visible("profiles", ProfileRows, "SELECT", auth_session) :
                     p.email = Lower(email)}
        sel == Single(found)
        isValid == VerifySecurityAnswer(sel.data.id, Lower(securityAnswer))
        upd == AdminUpdateUserById(RequestRole, sel.data.id, newPassword)
    IN  IF sel.error # "none"
        THEN Outcome("User not found", Null, auth_users, auth_session, "none",
                     <<"profiles.select">>)
        ELSE IF AnswerRejected(isValid)
        THEN Outcome("Invalid security answer", Null, auth_users, auth_session,
                     "none", <<"profiles.select", "rpc.verify_security_answer">>)
        ELSE Outcome(upd.error, IF upd.error = "none" THEN Some(TRUE) ELSE Null,
                     upd.users, auth_session, "none",
                     <<"profiles.select", "rpc.verify_security_answer",
                       "auth.admin.updateUserById">>)

\* A method of api.auth called by the client and run to its end: it throws
\* out.error, or returns out.data.
ApiAuth(op, args, fault, out) ==
    /\ auth_users' = out.users
    /\ auth_session' = out.session
    /\ sent' = out.requests
    /\ ret' = Ret(op, auth_session, args, fault, out.error, out.data)
    /\ UNCHANGED <<profiles, questions, study_guides, user_progress, bookmarks,
                   quiz_sessions, inflight, done, ctxVars,
                   local_storage>>

ApiSignUp(email, password, confirm, fault) ==
    ApiAuth("auth.signUp", [email |-> email, password |-> password], fault,
            SignUpCall(email, password, confirm, fault))

ApiSignIn(email, password, fault) ==
    ApiAuth("auth.signIn", [email |-> email, password |-> password], fault,
            SignInCall(email, password, fault))

ApiSignOut(fault) ==
    ApiAuth("auth.signOut", [none |-> Null], fault, SignOutCall(fault))

ApiGetUser(fault) ==
    ApiAuth("auth.getUser", [none |-> Null], fault, GetUserCall(fault))

ApiUpdateMe(updates, fault) ==
    ApiAuth("auth.updateMe", [updates |-> updates], fault,
            UpdateMeCall(updates, fault))

ApiResetPassword(email, securityAnswer, newPassword) ==
    ApiAuth("auth.resetPassword",
            [email |-> email, answer |-> securityAnswer,
             password |-> newPassword],
            FALSE, ResetPasswordCall(email, securityAnswer, newPassword))

\* The arguments the client passes.
SignUpEmails == {"", "u1@x.com", "u3@x.com"}
SignInEmails == {"u1@x.com", "u3@x.com"}
Passwords == {"", "pw1", "pw2"}
ResetEmails == {"u1@x.com", "U1@x.com", "u2@x.com", "zz@x.com"}
Answers == {"blue", "Blue", "green"}

NextAuthApi ==
    \/ \E email \in SignUpEmails, password \in Passwords, confirm, fault \in BOOLEAN :
          ApiSignUp(email, password, confirm, fault)
    \/ \E email \in SignInEmails, password \in Passwords, fault \in BOOLEAN :
          ApiSignIn(email, password, fault)
    \/ \E fault \in BOOLEAN : ApiSignOut(fault)
    \/ \E fault \in BOOLEAN : ApiGetUser(fault)
    \/ \E year \in Years, fault \in BOOLEAN : ApiUpdateMe(year, fault)
    \/ \E email \in ResetEmails, answer \in Answers :
          ApiResetPassword(email, answer, "pw2")

SpecAuthApi == Init /\ [][NextAuthApi]_vars

\* The stored profiles whose email is the one passed to resetPassword.
ProfilesWithEmail(email) == {p \in ProfileRows : p.email = Lower(email)}

\* C15: resetPassword changes a password only when a profile with the email
\* exists and the answer equals its stored answer; without such a profile it
\* fails with the not-found error, with a profile and a mismatching answer it
\* fails with the invalid-answer error, and a failed call leaves every
\* password as it was.
C15_ResetOnlyAfterVerification ==
    [][ret'.op = "auth.resetPassword"
       => LET match == ProfilesWithEmail(ret'.args.email)
              verified == \E p \in match :
                             Lower(p.security_answer) = Lower(ret'.args.answer)
          IN  /\ match = {} => ret'.error = "User not found"
              /\ (match # {} /\ ~verified)
                 => ret'.error = "Invalid security answer"
              /\ ret'.error # "none" => auth_users' = auth_users
              /\ auth_users' # auth_users => (match # {} /\ verified)]_vars

\* C16: resetPassword called without a session, with the email of a stored
\* profile and an answer that equals the stored answer up to letter case,
\* returns without error and leaves the account with the new password.
C16_ResetSucceedsUpToCase ==
    (/\ ret.op = "auth.resetPassword" /\ ret.caller = Anon
     /\ \E p \in ProfilesWithEmail(ret.args.email) :
           Lower(p.security_answer) = Lower(ret.args.answer))
    => /\ ret.error = "none"
       /\ \E a \in auth_users :
             a.email = Lower(ret.args.email) /\ a.password = ret.args.password

\* C17: signUp with an empty email or password fails with a validation
\* error and has sent no request; a signUp that returns carries a session or
\* needsVerification, and needsVerification is set exactly when a user and no
\* session came back.
C17_SignUpValidatesBeforeCall ==
    ret.op = "auth.signUp"
    => /\ (ret.args.email = "" \/ ret.args.password = "")
          => /\ ret.error \in {"ValidationError", "validation_failed"}
             /\ sent = <<>>
       /\ ret.error = "none"
          => /\ ret.data.session # Null \/ ret.data.needsVerification
             /\ ret.data.needsVerification
                <=> (ret.data.user # Null /\ ret.data.session = Null)

----------------------------------------------------------------------------
(* AuthProvider (src/lib/AuthContext-old.jsx) *)

FreeSlots == {s \in Slots : calls[s] = Idle}
NewSlot == CHOOSE s \in FreeSlots : \A t \in FreeSlots : s <= t

\* A call that has sent its request and waits for the answer; args are the
\* arguments of an operation, or the caller of a fetchUser.
Pending(op, pc, args) ==
    [op |-> op, pc |-> pc, args |-> args, out |-> Null, userData |-> Null]

\* The user object fetchUser builds from userData.  The profile row is never
\* merged into it: the file does not import `supabase`, so the profile query
\* throws inside the inner try and profileData stays {}.
UserObj(id) == [id |-> id, selected_year |-> 1]

\* setUser(null); setIsAuthenticated(false); setSession(null); setAuthError(null)
SignedOutState(c) ==
    [c EXCEPT !.user = Null, !.isAuthenticated = FALSE, !.session = Null,
              !.authError = Null]

\* setUser(userObj); setIsAuthenticated(true); setSession(userData);
\* setAuthError(null)
SignedInState(c, id) ==
    [c EXCEPT !.user = Some(UserObj(id)), !.isAuthenticated = TRUE,
              !.session = Some(id), !.authError = Null]

\* FinallyLoading without the finally block.
FinallyLoading_Missing(c) == c

\* finally { setIsLoadingAuth(false) }
FinallyLoading(c) == [c EXCEPT !.isLoadingAuth = FALSE]

\* fetchUser up to its await: setIsLoadingAuth(true), api.auth.getUser() sent.
FetchUserStart(c) == [c EXCEPT !.isLoadingAuth = TRUE]

\* fetchUser from the point where getUser has resolved to userData.
FetchUserResume(c, userData) ==
    FinallyLoading(IF userData = Null THEN SignedOutState(c)
                   ELSE SignedInState(c, userData[1]))

\* The callback is subscribed from the effect until its cleanup:
\* subscription.unsubscribe() is what the effect returns.
Subscribed_NoCleanup == mounted

Subscribed == mounted /\ ~torn

\* The state a setter of the provider leaves: the state of a provider that
\* was torn down is no longer updated.
SetState(c) == IF torn THEN ctx ELSE c

\* useEffect: fetchUser() is called and the callback is subscribed.
Mount ==
    /\ ~mounted
    /\ mounted' = TRUE
    /\ ctx' = FetchUserStart(ctx)
    /\ calls' = [calls EXCEPT ![NewSlot] = Pending("fetchUser", "getUser", "effect")]
    /\ UNCHANGED <<profiles, questions, study_guides, user_progress, bookmarks,
                   quiz_sessions, ret, inflight, done, auth_users,
                   auth_session, sent, events,
                   torn, local_storage>>

\* The service answers the getUser request of call s.
AnswerGetUser(s) ==
    /\ calls[s].pc = "getUser"
    /\ \E fault \in BOOLEAN :
          calls' = [calls EXCEPT ![s].pc = "gotUser",
                                 ![s].userData = GetUserCall(fault).data]
    /\ UNCHANGED <<profiles, questions, study_guides, user_progress, bookmarks,
                   quiz_sessions, ret, inflight, done, auth_users,
                   auth_session, sent, ctx, events, mounted,
                   torn, local_storage>>

\* A fetchUser called by the effect or by the callback runs to its end.
ResumeFetchUser(s) ==
    /\ calls[s].op = "fetchUser" /\ calls[s].pc = "gotUser"
    /\ ctx' = SetState(FetchUserResume(ctx, calls[s].userData))
    /\ calls' = [calls EXCEPT ![s] = Idle]
    /\ UNCHANGED <<profiles, questions, study_guides, user_progress, bookmarks,
                   quiz_sessions, ret, inflight, done, auth_users,
                   auth_session, sent, events, mounted,
                   torn, local_storage>>

\* The notification the client emits for an outcome, with the session it
\* passes to the subscribed callback.
Notification(out) ==
    [event |-> out.event,
     session |-> IF out.session = Anon THEN Null ELSE Some(out.session)]

\* events after the outcome of a call: subscribers only are notified.
Emit(out) ==
    IF Subscribed /\ out.event # "none" THEN Append(events, Notification(out))
    ELSE events

\* The callback is run with the oldest notification.
Deliver ==
    /\ Subscribed /\ events # <<>>
    /\ LET e == Head(events)
       IN  CASE e.event = "SIGNED_IN" /\ e.session # Null ->
                  /\ FreeSlots # {}
                  /\ ctx' = FetchUserStart(ctx)
                  /\ calls' = [calls EXCEPT
                                  ![NewSlot] = Pending("fetchUser", "getUser", "callback")]
             [] e.event = "SIGNED_OUT" ->
                  /\ ctx' = SignedOutState(ctx)
                  /\ calls' = calls
             [] e.event = "TOKEN_REFRESHED" ->
                  /\ ctx' = [ctx EXCEPT !.session = e.session]
                  /\ calls' = calls
             [] OTHER -> ctx' = ctx /\ calls' = calls
    /\ events' = Tail(events)
    /\ UNCHANGED <<profiles, questions, study_guides, user_progress, bookmarks,
                   quiz_sessions, ret, inflight, done, auth_users,
                   auth_session, sent, mounted,
                   torn, local_storage>>

\* The session of the client changes as a call of api.auth outside the
\* AuthProvider, or the client itself, has it: out is the outcome.
SessionChange(out) ==
    /\ out.error = "none"
    /\ out.event # "none" => Len(events) < MaxEvents
    /\ auth_users' = out.users
    /\ auth_session' = out.session
    /\ events' = Emit(out)
    /\ UNCHANGED <<profiles, questions, study_guides, user_progress, bookmarks,
                   quiz_sessions, ret, inflight, done, sent, ctx, calls,
                   mounted,
                   torn, local_storage>>

\* The client refreshes the token of its session.
TokenRefreshCall ==
    Outcome(IF auth_session = Anon THEN "no_session" ELSE "none", Null,
            auth_users, auth_session, "TOKEN_REFRESHED", <<"auth.token">>)

NextMount ==
    \/ Mount
    \/ \E s \in Slots : AnswerGetUser(s)
    \/ \E s \in Slots : ResumeFetchUser(s)
    \/ Deliver
    \/ SessionChange(SignInCall("u1@x.com", "pw1", FALSE))
    \/ SessionChange(SignOutCall(FALSE))
    \/ SessionChange(TokenRefreshCall)

SpecMount == Init /\ [][NextMount]_vars

\* Once issued, a call runs to completion or failure: every request is
\* answered and every continuation is run.
SpecMountFair ==
    /\ SpecMount
    /\ \A s \in Slots : WF_vars(AnswerGetUser(s)) /\ WF_vars(ResumeFetchUser(s))

\* The user is populated exactly when the context is authenticated.
Settled == /\ ~ctx.isLoadingAuth
           /\ ctx.isAuthenticated <=> ctx.user # Null

\* C19: the effect issues exactly one getUser request and sets loading; when
\* the fetchUser of the effect resumes, answered or failed, loading is off
\* and the context is authenticated with a user or anonymous without one;
\* a mounted context that is loading always leaves loading.
C19_MountLoadsThenSettles ==
    /\ [][(~mounted /\ mounted')
          => /\ ctx'.isLoadingAuth
             /\ Cardinality({s \in Slots : calls'[s] # calls[s]}) = 1
             /\ \A s \in Slots :
                   calls'[s] # calls[s]
                   => calls'[s] = Pending("fetchUser", "getUser", "effect")]_vars
    /\ [][(\E s \in Slots : /\ calls[s].op = "fetchUser"
                           /\ calls[s].pc = "gotUser"
                           /\ calls[s].args = "effect"
                           /\ calls'[s] = Idle)
          => Settled']_vars
    /\ (mounted /\ ctx.isLoadingAuth) ~> Settled

\* The effect's fetchUser has returned and left the context authenticated.
C19_Witness ==
    /\ mounted /\ Settled /\ ctx.isAuthenticated
    /\ \A s \in Slots : calls[s] = Idle
    /\ events = <<>>

\* C20: the callback, run with SIGNED_IN or with TOKEN_REFRESHED, sends a
\* getUser request that refreshes the user; run with SIGNED_OUT it leaves
\* the context anonymous.
C20_NotificationsRefreshOrClear ==
    [][(mounted /\ events # <<>> /\ events' = Tail(events))
       => LET e == Head(events)
          IN  /\ e.event \in {"SIGNED_IN", "TOKEN_REFRESHED"}
                 => \E s \in Slots :
                       calls[s] = Idle /\ calls'[s].pc = "getUser"
              /\ e.event = "SIGNED_OUT"
                 => (ctx'.user = Null /\ ~ctx'.isAuthenticated)]_vars

----------------------------------------------------------------------------
(* api.questions and api.studyGuides: the reads of the reference data *)

\* The year, section and difficulty columns of the reference rows: no
\* statement of the model changes them, so they are given by the id.
YearOf(id) == IF id \in {"q2", "g2"} THEN 2 ELSE 1

SectionOf(id) == IF id \in {"q1", "g1"} THEN "A" ELSE "B"

DifficultyOf(id) == IF id = "q1" THEN "easy" ELSE "hard"

\* A filter argument that is null, 0 or "" adds no condition: if (year) ...
NoYear == 0
NoText == ""

\* supabase.from(table).select('*') with the .eq() conditions of the
\* arguments that are set; fault: the request fails.
QueryReference(caller, table, year, section, difficulty, fault) ==
    IF fault THEN [error |-> "fetch_failed", data |-> Null]
    ELSE [error |-> "none",
          data |-> Some({r \in Visible(table, RowsOf(table), "SELECT", caller) :
                           /\ year # NoYear => YearOf(r.id) = year
                           /\ section # NoText => SectionOf(r.id) = section
                           /\ difficulty # NoText => DifficultyOf(r.id) = difficulty})]

\* getAll without its catch block: the error reaches the caller.
GetAllResult_Rethrows(q) ==
    IF q.error # "none" THEN [error |-> q.error, data |-> {}]
    ELSE [error |-> "none", data |-> q.data[1]]

\* if (error) throw error; return data || []; catch: return [];
GetAllResult(q) ==
    IF q.error # "none" THEN [error |-> "none", data |-> {}]
    ELSE [error |-> "none", data |-> q.data[1]]

\* getAll(year, section, difficulty) of api.questions, getAll(year, section)
\* of api.studyGuides; method is the name it was called by.
GetAll(caller, table, method, year, section, difficulty, fault) ==
    LET result == GetAllResult(QueryReference(caller, table, year, section,
                                              difficulty, fault))
    IN  /\ ret' = Ret(method, caller,
                      [table |-> table, year |-> year, section |-> section,
                       difficulty |-> difficulty],
                      fault, result.error, result.data)
        /\ UNCHANGED <<profiles, questions, study_guides, user_progress,
                       bookmarks, quiz_sessions, inflight, done, clientVars>>

\* getByYear(year) { return this.getAll(year) }
GetByYear(caller, table, year, fault) ==
    GetAll(caller, table, "getByYear", year, NoText, NoText, fault)

\* getBySection(year, section) { return this.getAll(year, section) }
GetBySection(caller, table, year, section, fault) ==
    GetAll(caller, table, "getBySection", year, section, NoText, fault)

ReferenceReads == {"getAll", "getByYear", "getBySection"}

YearArgs == Years \cup {NoYear}
SectionArgs == {"A", "B", NoText}

\* The callers of the reads: a visitor and a signed-in user.
ReadCallers == {Anon, "u1"}

NextReads ==
    \E caller \in ReadCallers, table \in ReferenceTables, fault \in BOOLEAN :
        \/ \E year \in YearArgs, section \in SectionArgs,
              difficulty \in IF table = "questions" THEN {"easy", NoText}
                             ELSE {NoText} :
              GetAll(caller, table, "getAll", year, section, difficulty, fault)
        \/ \E year \in YearArgs : GetByYear(caller, table, year, fault)
        \/ \E year \in YearArgs, section \in SectionArgs :
              GetBySection(caller, table, year, section, fault)

\* The statements that change what there is to read.
NextCatalogue ==
    \E table \in ReferenceTables :
        \/ \E id \in IF table = "questions" THEN NewQuestionIds ELSE NewGuideIds :
              RestInsert("u1", table, id)
        \/ \E r \in RowsOf(table) : RestDelete("u1", table, r.id)

SpecReads == Init /\ [][NextReads \/ NextCatalogue]_vars

\* C22: a read of the reference data never hands an error to its caller:
\* when the backend fails it returns the empty collection, and no read
\* changes a stored row.
C22_ReadsSwallowErrors ==
    [][ret'.op \in ReferenceReads
       => /\ ret'.error = "none"
          /\ ret'.fault => ret'.data = {}
          /\ <<profiles, questions, study_guides, user_progress, bookmarks,
               quiz_sessions>>' =
             <<profiles, questions, study_guides, user_progress, bookmarks,
               quiz_sessions>>]_vars

\* A read by year fails at the backend while there are rows of that year.
C22_Witness ==
    /\ ret.op = "getByYear" /\ ret.fault /\ ret.data = {}
    /\ ret.args.table = "questions" /\ ret.args.year = 1
    /\ \E r \in questions : YearOf(r.id) = 1

----------------------------------------------------------------------------
(* Offline mode: the progress documents in localStorage *)

STORAGE_KEYS == [selectedYear |-> <<"tradebench_selected_year">>,
                 userProgress |-> <<"tradebench_user_progress">>]

\* year ? `tradebench_user_progress_y${year}` : STORAGE_KEYS.userProgress
progressKey(year) ==
    IF year # NoYear THEN <<"tradebench_user_progress_y", year>>
    ELSE STORAGE_KEYS.userProgress

\* The key of the progress document of a user in a year: the key function
\* takes the year only.
StorageKey(userId, year) == progressKey(year)

\* localStorage.getItem(key)
GetItem(key) ==
    LET hit == {e \in local_storage : e.key = key}
    IN  IF hit = {} THEN Null ELSE Some((CHOOSE e \in hit : TRUE).doc)

\* localStorage.setItem(key, doc)
SetItem(key, doc) == {e \in local_storage : e.key # key} \cup {[key |-> key, doc |-> doc]}

\* userProgress.get(userId, year) of the offline client.
LocalGet(userId, year) ==
    /\ ret' = Ret("local.get", userId, [year |-> year], FALSE, "none",
                  GetItem(StorageKey(userId, year)))
    /\ UNCHANGED <<profiles, questions, study_guides, user_progress, bookmarks,
                   quiz_sessions, inflight, done, auth_users, auth_session,
                   sent, local_storage, ctxVars>>

\* userProgress.update(userId, year, updates) of the offline client.
LocalUpdate(userId, year, stats) ==
    /\ local_storage' = SetItem(StorageKey(userId, year),
                                [user_id |-> userId, year |-> year, stats |-> stats])
    /\ ret' = Ret("local.update", userId, [year |-> year], FALSE, "none", Null)
    /\ UNCHANGED <<profiles, questions, study_guides, user_progress, bookmarks,
                   quiz_sessions, inflight, done, auth_users, auth_session,
                   sent, ctxVars>>

LocalStats == {0, 1}

NextOffline ==
    \E userId \in Users, year \in YearArgs :
        \/ LocalGet(userId, year)
        \/ \E stats \in LocalStats : LocalUpdate(userId, year, stats)

SpecOffline == Init /\ [][NextOffline]_vars

\* C23: each (user, year) progress document has a key of its own: what a
\* user reads through the key of a year is what that user wrote for that
\* year, and the document under a user's key is never one another user wrote.
C23_OneKeyPerUserAndYear ==
    /\ ret.op = "local.get" /\ ret.data # Null
          => ret.data[1].user_id = ret.caller /\ ret.data[1].year = ret.args.year
    /\ \A userId \in Users, year \in YearArgs :
          LET item == GetItem(StorageKey(userId, year))
          IN  item # Null => item[1].user_id = userId

----------------------------------------------------------------------------
(* AuthProvider: teardown *)

\* The cleanup of the effect: subscription.unsubscribe().  Notifications not
\* yet delivered stay undelivered, calls that await an answer still resume.
Teardown ==
    /\ mounted /\ ~torn
    /\ torn' = TRUE
    /\ UNCHANGED <<profiles, questions, study_guides, user_progress, bookmarks,
                   quiz_sessions, ret, inflight, done, auth_users,
                   auth_session, sent, local_storage, ctx, calls, events,
                   mounted>>

NextTeardown == NextMount \/ Teardown

SpecTeardown == Init /\ [][NextTeardown]_vars

\* The part of the context's state a consumer reads.
Observed(c) == <<c.user, c.isAuthenticated, c.isLoadingAuth, c.authError>>

\* C21: the callback is subscribed from mount until teardown; once the
\* provider is torn down no notification is delivered any more and the
\* user, isAuthenticated, loading and error state stay as they are.
C21_NoNotificationAfterTeardown ==
    [][/\ (events # <<>> /\ events' = Tail(events)) => (mounted /\ ~torn)
       /\ torn => Observed(ctx') = Observed(ctx)]_vars

\* A notification is pending when the provider is torn down and a later
\* change of the session is not queued for it.
C21_Witness ==
    /\ torn /\ events # <<>>
    /\ Head(events).event = "SIGNED_OUT" /\ ctx.isAuthenticated
    /\ auth_session # Anon

----------------------------------------------------------------------------
(* AuthProvider: signIn, signUp, signOut, updateProfile, resetPassword *)

CtxOps == {"signIn", "signUp", "signOut", "updateProfile", "resetPassword"}

\* setAuthError(null) is the first statement of signIn, signUp, resetPassword.
ClearsErrorFirst == {"signIn", "signUp", "resetPassword"}

\* The type of the authError an operation sets in its catch block; signOut
\* sets none.
ErrorType(op) ==
    CASE op = "signIn" -> "signin" [] op = "signUp" -> "signup"
      [] op = "updateProfile" -> "profile" [] op = "resetPassword" -> "reset"
      [] OTHER -> "none"

\* return { success: false, error: error.message }
Failure(message) == [success |-> FALSE, error |-> message]

\* The method of api.auth an operation awaits, as the service executes it.
ApiCall(op, args, confirm, fault) ==
    CASE op = "signIn" -> SignInCall(args.email, args.password, fault)
      [] op = "signUp" -> SignUpCall(args.email, args.password, confirm, fault)
      [] op = "signOut" -> SignOutCall(fault)
      [] op = "updateProfile" -> UpdateMeCall(args.updates, fault)
      [] op = "resetPassword" ->
            ResetPasswordCall(args.email, args.answer, args.password)

\* The result an operation hands to the presentation code; failed tells
\* whether its api.auth method threw.  No operation raises: each body is a
\* try block whose catch returns.
Return(op, args, failed, result) ==
    ret' = Ret(op, "ui", args, failed, "none", result)

\* An operation is called: it runs up to its first await.
StartOp(op, args) ==
    /\ mounted /\ FreeSlots # {}
    /\ ctx' = SetState(IF op \in ClearsErrorFirst
                        THEN [ctx EXCEPT !.authError = Null] ELSE ctx)
    /\ calls' = [calls EXCEPT ![NewSlot] = Pending(op, "api", args)]
    /\ UNCHANGED <<profiles, questions, study_guides, user_progress, bookmarks,
                   quiz_sessions, ret, inflight, done, auth_users,
                   auth_session, sent, events, mounted,
                   torn, local_storage>>

\* The requests that may fail to reach the service: a fault is drawn where
\* the service has no failure of its own.
FaultsOf(op) == IF op = "signOut" THEN BOOLEAN ELSE {FALSE}

\* The service executes the api.auth method call s awaits.
AnswerApi(s) ==
    /\ calls[s].pc = "api"
    /\ \E confirm \in BOOLEAN, fault \in FaultsOf(calls[s].op) :
          LET out == ApiCall(calls[s].op, calls[s].args, confirm, fault)
          IN  /\ out.event # "none" => Len(events) < MaxEvents
              /\ auth_users' = out.users
              /\ auth_session' = out.session
              /\ events' = Emit(out)
              /\ calls' = [calls EXCEPT
                              ![s].pc = "apiDone",
                              ![s].out = [error |-> out.error, data |-> out.data]]
    /\ UNCHANGED <<profiles, questions, study_guides, user_progress, bookmarks,
                   quiz_sessions, ret, inflight, done, sent, ctx, mounted,
                   torn, local_storage>>

\* A catch block that clears the user as well, as that of fetchUser does.
Caught_ClearsUser(s) ==
    LET c == calls[s]
    IN  /\ ctx' = SetState(SignedOutState(ctx))
        /\ calls' = [calls EXCEPT ![s] = Idle]
        /\ Return(c.op, c.args, TRUE, Failure(c.out.error))

\* catch (error): setAuthError({type, message}) except in signOut, and the
\* failure object is returned.
Caught(s) ==
    LET c == calls[s]
    IN  /\ ctx' = SetState(IF c.op = "signOut" THEN ctx
                           ELSE [ctx EXCEPT !.authError =
                                    Some([type |-> ErrorType(c.op),
                                          message |-> c.out.error])])
        /\ calls' = [calls EXCEPT ![s] = Idle]
        /\ Return(c.op, c.args, TRUE, Failure(c.out.error))

\* The continuation of call s after its api.auth method has returned.
Returned(s) ==
    LET c == calls[s]
        data == c.out.data
    IN  CASE c.op = "signIn" \/ (c.op = "signUp" /\ ~data.needsVerification) ->
               \* result.session is set: await fetchUser()
               /\ ctx' = SetState(FetchUserStart(ctx))
               /\ calls' = [calls EXCEPT ![s].pc = "getUser"]
               /\ ret' = ret
          [] c.op = "signUp" /\ data.needsVerification ->
               /\ ctx' = ctx
               /\ calls' = [calls EXCEPT ![s] = Idle]
               /\ Return(c.op, c.args, FALSE,
                         [success |-> TRUE, needsVerification |-> TRUE])
          [] c.op = "signOut" ->
               /\ ctx' = SetState(SignedOutState(ctx))
               /\ calls' = [calls EXCEPT ![s] = Idle]
               /\ Return(c.op, c.args, FALSE, [success |-> TRUE])
          [] c.op = "updateProfile" ->
               \* setUser(prev => ({...prev, ...updatedProfile}))
               /\ ctx' = SetState([ctx EXCEPT !.user = Some(data)])
               /\ calls' = [calls EXCEPT ![s] = Idle]
               /\ Return(c.op, c.args, FALSE,
                         [success |-> TRUE, profile |-> data])
          [] c.op = "resetPassword" ->
               /\ ctx' = ctx
               /\ calls' = [calls EXCEPT ![s] = Idle]
               /\ Return(c.op, c.args, FALSE, [success |-> TRUE])

\* Call s resumes after the await of its api.auth method.
ResumeApi(s) ==
    /\ calls[s].pc = "apiDone"
    /\ IF calls[s].out.error # "none" THEN Caught(s) ELSE Returned(s)
    /\ UNCHANGED <<profiles, questions, study_guides, user_progress, bookmarks,
                   quiz_sessions, inflight, done, auth_users, auth_session,
                   sent, events, mounted,
                   torn, local_storage>>

\* signIn or signUp resumes after its await of fetchUser and returns.
ResumeAfterFetch(s) ==
    /\ calls[s].op \in {"signIn", "signUp"} /\ calls[s].pc = "gotUser"
    /\ ctx' = SetState(FetchUserResume(ctx, calls[s].userData))
    /\ calls' = [calls EXCEPT ![s] = Idle]
    /\ Return(calls[s].op, calls[s].args, FALSE,
              [success |-> TRUE, user |-> calls[s].out.data.user])
    /\ UNCHANGED <<profiles, questions, study_guides, user_progress, bookmarks,
                   quiz_sessions, inflight, done, auth_users, auth_session,
                   sent, events, mounted,
                   torn, local_storage>>

\* The operations the presentation code calls, with their arguments.
OpArgs ==
    {<<"signIn", [email |-> "u1@x.com", password |-> pw]>> : pw \in {"pw1", "pw2"}}
    \cup {<<"signUp", [email |-> "u3@x.com", password |-> "pw1"]>>,
          <<"signOut", [none |-> Null]>>,
          <<"updateProfile", [updates |-> 2]>>,
          <<"resetPassword",
            [email |-> "u1@x.com", answer |-> "blue", password |-> "pw2"]>>}

NextAuthOps ==
    \/ Mount
    \/ \E call \in OpArgs : StartOp(call[1], call[2])
    \/ \E s \in Slots : AnswerApi(s)
    \/ \E s \in Slots : ResumeApi(s)
    \/ \E s \in Slots : AnswerGetUser(s)
    \/ \E s \in Slots : ResumeFetchUser(s)
    \/ \E s \in Slots : ResumeAfterFetch(s)
    \/ Deliver

SpecAuthOps == Init /\ [][NextAuthOps]_vars

\* C14: once the context holds an authenticated user, after a sign-up or
\* any other way, a profile row with the id of that user is stored.
C14_ProfileOfObservedUser ==
    (ctx.isAuthenticated /\ ctx.user # Null) => ctx.user[1].id \in profiles

\* C18: an operation of the context returns an object and raises nothing;
\* when its backend call failed the object has success = false and carries
\* the failure message under the key message.
C18_FailureUnderMessageKey ==
    ret.op \in CtxOps
    => /\ ret.error = "none"
       /\ "success" \in DOMAIN ret.data
       /\ ret.fault => /\ ~ret.data.success
                       /\ "message" \in DOMAIN ret.data

----------------------------------------------------------------------------
(* The whole system *)

Next ==
    \/ NextProgress
    \/ NextConcurrent
    \/ NextRpc
    \/ NextReference
    \/ NextBookmarks
    \/ NextSessions
    \/ NextCascade
    \/ NextAuthApi
    \/ NextMount
    \/ NextAuthOps

Spec == Init /\ [][Next]_vars


----------------------------------------------------------------------------
(* AuthProvider: the claims about its state *)

\* C24: in every state of the AuthProvider isAuthenticated is true exactly
\* when user is set, whatever of mount, signIn, signUp, signOut,
\* updateProfile and the notifications has run.
C24_AuthenticatedIffUser ==
    ctx.isAuthenticated <=> (ctx.user # Null)


\* Call s returns to the presentation code in this step.
Returns(s, op) == calls[s].op = op /\ calls'[s] = Idle

\* C25: whenever signIn returns success = true, the context is
\* authenticated and its user is set at the moment signIn returns.
C25_SignInSuccessMeansAuthenticated ==
    [][\A s \in Slots :
          (Returns(s, "signIn") /\ ret'.data.success)
             => (ctx'.isAuthenticated /\ ctx'.user # Null)]_vars


\* The context shows no user.
Anonymous(c) == c.user = Null /\ ~c.isAuthenticated

\* No signIn or signUp of the provider is under way.
NoSignInPending(cs) == \A s \in Slots : cs[s].op \notin {"signIn", "signUp"}

\* C26: once the sign-out is complete (the client has no session, the
\* context shows no user, every notification was handled) and no sign-in is
\* issued, the context stays anonymous: a getUser answered before the
\* sign-out does not bring the user back when its call resumes.
C26_StaysAnonymousAfterSignOut ==
    [][(/\ auth_session = Anon /\ auth_session' = Anon
        /\ Anonymous(ctx) /\ events = <<>>
        /\ NoSignInPending(calls) /\ NoSignInPending(calls'))
       => Anonymous(ctx')]_vars


\* The calls of fetchUser that have not run to their end: those of the
\* effect and of the callback, and those signIn and signUp await.
FetchUserInFlight(cs) == {s \in Slots : cs[s].pc \in {"getUser", "gotUser"}}

\* C27: isLoadingAuth is true whenever a fetchUser call is in flight, also
\* when several overlap; it becomes false only when none is left.
C27_LoadingWhileFetching ==
    FetchUserInFlight(calls) # {} => ctx.isLoadingAuth


\* signIn and signOut only, with a right and a wrong password.
SignInOutArgs == {call \in OpArgs : call[1] \in {"signIn", "signOut"}}

NextSignInOut ==
    \/ Mount
    \/ \E call \in SignInOutArgs : StartOp(call[1], call[2])
    \/ \E s \in Slots : AnswerApi(s)
    \/ \E s \in Slots : ResumeApi(s)
    \/ \E s \in Slots : AnswerGetUser(s)
    \/ \E s \in Slots : ResumeFetchUser(s)
    \/ \E s \in Slots : ResumeAfterFetch(s)
    \/ Deliver

SpecSignInOut == Init /\ [][NextSignInOut]_vars

\* user and isAuthenticated are the same in both states.
SameUser(c, d) == c.user = d.user /\ c.isAuthenticated = d.isAuthenticated

\* Call s of signIn or signOut fails in this step: its api.auth method threw
\* and the call returns.
FailsNow(s, op) ==
    /\ calls[s].op = op /\ calls[s].pc = "apiDone"
    /\ calls[s].out.error # "none" /\ calls'[s] = Idle

\* C28: no step of a signIn or signOut that fails changes user or
\* isAuthenticated: not its start, not the answer of the service, not its
\* return.  A failed signIn leaves the message of the backend in authError,
\* a failed signOut returns success = false.
C28_FailedCallKeepsUser ==
    [][\A s \in Slots :
          /\ (calls[s] = Idle /\ calls'[s].op \in {"signIn", "signOut"})
                => SameUser(ctx, ctx')
          /\ (calls[s].op \in {"signIn", "signOut"} /\ calls[s].pc = "api"
                /\ calls'[s].pc = "apiDone")
                => ctx' = ctx
          /\ FailsNow(s, "signIn")
                => /\ SameUser(ctx, ctx')
                   /\ ctx'.authError # Null
                   /\ ctx'.authError[1].message = calls[s].out.error
                   /\ ~ret'.data.success
          /\ FailsNow(s, "signOut")
                => /\ SameUser(ctx, ctx')
                   /\ ~ret'.data.success]_vars

\* While a user is signed in, a signIn with a wrong password has failed and
\* then a signOut has failed: the user is still there, with the message of
\* the failed signIn.
C28_Witness ==
    /\ ret.op = "signOut" /\ ~ret.data.success
    /\ ctx.isAuthenticated /\ ctx.user # Null
    /\ ctx.authError # Null
    /\ ctx.authError[1].message = "invalid_credentials"

============================================================================
